---------------------------- MODULE Spec2Model ----------------------------
(***************************************************************************)
(* A model of termbox (deno-library/termbox): the TermBox class with its   *)
(* cell grid, the ANSI sequences it writes through the writer of           *)
(* Deno.stdout.writable, and the cursor-position query on Deno.stdin.      *)
(*                                                                         *)
(* Strings are sequences of UTF-16 code units, each unit written as a      *)
(* TLA+ string: "a", "[", "0" ... and the names ESC (U+001B), CSI (U+009B),*)
(* BEL (U+0007), NUL, LF, CR, HI and LO (the two halves of a surrogate     *)
(* pair) for the units that have no printable form.                        *)
(*                                                                         *)
(* The repository holds three revisions of the module: mod.ts lines 1-115  *)
(* (revision 1), unnamed/part_000 (revision 2) and mod.ts lines 116-346    *)
(* (revision 3, the current one).  The variable revision says which one    *)
(* runs.                                                                   *)
(***************************************************************************)
EXTENDS Integers, Sequences, FiniteSets, TLC

VARIABLES
    revision,    \* which revision of the module is loaded
    stdoutTTY,   \* Deno.stdout is a terminal
    stdinTTY,    \* Deno.stdin is a terminal
    locked,      \* Deno.stdout.writable is locked to a writer
    errored,     \* Deno.stdout.writable is in the errored state
    sessions,    \* the TermBox objects constructed so far
    queue,       \* chunks accepted by the stream and not yet written
    out,         \* chunks written to the output device, in order
    raw,         \* Deno.stdin is in raw mode
    calls,       \* every call of the public interface so far, with its outcome
    osQueries,   \* number of Deno.consoleSize() calls so far
    reads,       \* number of Deno.stdin.read() calls so far
    unhandled,   \* number of rejected promises that nobody holds
    crashed,     \* the process was ended by an unhandled rejection
    budget       \* number of calls the program makes before it stops

vars == <<revision, stdoutTTY, stdinTTY, locked, errored, sessions, queue, out,
          raw, calls, osQueries, reads, unhandled, crashed, budget>>

-----------------------------------------------------------------------------
(* Bounds of the model. *)

MaxCalls == 3
MaxGridCalls == 3
MaxQueryCalls == 3
MaxSessions == 2
MaxScreenCalls == 3
MaxOwnerCalls == 5

-----------------------------------------------------------------------------
(* Sequences. *)

Max(a, b) == IF a >= b THEN a ELSE b

Min(a, b) == IF a <= b THEN a ELSE b

Take(s, n) == SubSeq(s, 1, Min(n, Len(s)))

Drop(s, n) == SubSeq(s, n + 1, Len(s))

Repeat(c, n) == [i \in 1..n |-> c]

-----------------------------------------------------------------------------
(* Number to text and back, as template literals, string concatenation and *)
(* parseInt do it.                                                         *)

DigitChars == <<"0", "1", "2", "3", "4", "5", "6", "7", "8", "9">>

Digits == {DigitChars[i] : i \in 1..10}

RECURSIVE NatToString(_)
NatToString(n) ==
    IF n < 10 THEN <<DigitChars[n + 1]>>
    ELSE NatToString(n \div 10) \o <<DigitChars[(n % 10) + 1]>>

NumberToString(n) == IF n < 0 THEN <<"-">> \o NatToString(-n) ELSE NatToString(n)

DigitValue(c) == CHOOSE d \in 0..9 : DigitChars[d + 1] = c

RECURSIVE parseInt(_)
parseInt(s) ==
    IF Len(s) = 0 THEN 0
    ELSE 10 * parseInt(SubSeq(s, 1, Len(s) - 1)) + DigitValue(s[Len(s)])

-----------------------------------------------------------------------------
(* The ANSI sequences. *)

ESC == <<"ESC", "[">>
SAVE == <<"ESC", "7">>
RESTORE == <<"ESC", "8">>
\* HIDE is a reserved word of TLA+: the constant HIDE is named HIDE_SEQ.
HIDE_SEQ == <<"?", "2", "5", "l">>
SHOW == <<"?", "2", "5", "h">>
POSITION == <<"6", "n">>
CLEAR_SCREEN == <<"2", "J">>
HOME == <<"H">>

\* A mutant of CursorToAction: the column before the row.
CursorToActionSwapped(x, y) == NumberToString(x) \o <<";">> \o NumberToString(y) \o HOME

CursorToAction(x, y) == NumberToString(y) \o <<";">> \o NumberToString(x) \o HOME

ScreenResetText(rows) ==
    ESC \o NumberToString(rows - 1) \o <<"A", "CR", "ESC", "[", "?", "0", "J">>

-----------------------------------------------------------------------------
\* ANSI_PATTERN and stripAnsiCode.  With I = [[\]()#;?], P = the parameter
\* class, N = [a-zA-Z\d], F = the final class and d = \d, the pattern is
\*     [ESC CSI] I{0,} ( Alt1 | Alt2 )
\*     Alt1 = ( (;P{1,}){0,} | N{1,} (;P{0,}){0,} ){0,1} BEL
\*     Alt2 = ( d{1,4} (;d{0,4}){0,} ){0,1} F
\* matched as a backtracking matcher does: quantifiers are greedy, the first
\* alternative is tried first, and the first success is the match.  Every
\* operator returns the index after the match, or 0 for no match.

UpperCase == {"A", "B", "C", "D", "E", "F", "G", "H", "I", "J", "K", "L", "M",
              "N", "O", "P", "Q", "R", "S", "T", "U", "V", "W", "X", "Y", "Z"}

LowerCase == {"a", "b", "c", "d", "e", "f", "g", "h", "i", "j", "k", "l", "m",
              "n", "o", "p", "q", "r", "s", "t", "u", "v", "w", "x", "y", "z"}

IntroClass == {"[", "]", "(", ")", "#", ";", "?"}

AlnumClass == LowerCase \cup UpperCase \cup Digits

ParamClass == AlnumClass \cup {"-", "/", "#", "&", ".", ":", "=", "?", "%", "@", "~", "_"}

FinalClass == Digits \cup (UpperCase \ {"Q", "U", "V", "W", "Y"})
                     \cup {"c", "f", "g", "h", "i", "j", "k", "l", "m", "n",
                           "q", "r", "s", "t", "u", "y", "=", ">", "<", "~"}

At(s, i) == IF i >= 1 /\ i <= Len(s) THEN s[i] ELSE "EOS"

\* The number of units of s from index i on that are in class C, at most cap.
RECURSIVE RunLen(_, _, _, _)
RunLen(s, i, C, cap) ==
    IF cap = 0 \/ At(s, i) \notin C THEN 0 ELSE 1 + RunLen(s, i + 1, C, cap - 1)

\* (;d{0,4}){0,} F, from index p; d counts down the digits the current
\* iteration tries to take (-1: no further iteration).
RECURSIVE DigitStarFinal(_, _, _)
DigitStarFinal(s, p, d) ==
    IF d < 0
    THEN IF At(s, p) \in FinalClass THEN p + 1 ELSE 0
    ELSE LET q == p + 1 + d
             more == IF At(s, q) = ";" THEN RunLen(s, q + 1, Digits, 4) ELSE -1
             r == DigitStarFinal(s, q, more)
         IN  IF r # 0 THEN r ELSE DigitStarFinal(s, p, d - 1)

\* d{1,4} taking k digits (k counting down to 1), then (;d{0,4}){0,} F.
RECURSIVE DigitsThenFinal(_, _, _)
DigitsThenFinal(s, j, k) ==
    IF k < 1 THEN 0
    ELSE LET q == j + k
             more == IF At(s, q) = ";" THEN RunLen(s, q + 1, Digits, 4) ELSE -1
             r == DigitStarFinal(s, q, more)
         IN  IF r # 0 THEN r ELSE DigitsThenFinal(s, j, k - 1)

Alt2(s, j) ==
    LET r == DigitsThenFinal(s, j, RunLen(s, j, Digits, 4))
    IN  IF r # 0 THEN r
        ELSE IF At(s, j) \in FinalClass THEN j + 1 ELSE 0

\* (;P{lo,}){0,} BEL from index p, the current iteration taking d units of
\* Param after its ";" (d counting down to lo; below lo: no further iteration).
RECURSIVE ParamStarBel(_, _, _, _)
ParamStarBel(s, p, d, lo) ==
    IF d < lo
    THEN IF At(s, p) = "BEL" THEN p + 1 ELSE 0
    ELSE LET q == p + 1 + d
             more == IF At(s, q) = ";" THEN RunLen(s, q + 1, ParamClass, Len(s))
                     ELSE -1
             r == ParamStarBel(s, q, more, lo)
         IN  IF r # 0 THEN r ELSE ParamStarBel(s, p, d - 1, lo)

\* N{1,} taking k units (k counting down to 1), then (;P{0,}){0,} BEL.
RECURSIVE AlnumThenBel(_, _, _)
AlnumThenBel(s, j, k) ==
    IF k < 1 THEN 0
    ELSE LET q == j + k
             more == IF At(s, q) = ";" THEN RunLen(s, q + 1, ParamClass, Len(s))
                     ELSE -1
             r == ParamStarBel(s, q, more, 0)
         IN  IF r # 0 THEN r ELSE AlnumThenBel(s, j, k - 1)

Alt1(s, j) ==
    LET first == IF At(s, j) = ";" THEN RunLen(s, j + 1, ParamClass, Len(s)) ELSE -1
        a == ParamStarBel(s, j, first, 1)
        b == AlnumThenBel(s, j, RunLen(s, j, AlnumClass, Len(s)))
    IN  IF a # 0 THEN a
        ELSE IF b # 0 THEN b
        ELSE IF At(s, j) = "BEL" THEN j + 1 ELSE 0

\* I{0,} taking p units (p counting down to 0), then Alt1 | Alt2.
RECURSIVE IntroThenAlt(_, _, _)
IntroThenAlt(s, j, p) ==
    IF p < 0 THEN 0
    ELSE LET a == Alt1(s, j + p)
             b == Alt2(s, j + p)
         IN  IF a # 0 THEN a
             ELSE IF b # 0 THEN b
             ELSE IntroThenAlt(s, j, p - 1)

\* The index after the match of ANSI_PATTERN that starts at index i, or 0.
ANSI_PATTERN(s, i) ==
    IF At(s, i) \notin {"ESC", "CSI"} THEN 0
    ELSE IntroThenAlt(s, i + 1, RunLen(s, i + 1, IntroClass, Len(s)))

RECURSIVE StripFrom(_, _)
StripFrom(s, i) ==
    IF i > Len(s) THEN <<>>
    ELSE LET e == ANSI_PATTERN(s, i)
         IN  IF e # 0 THEN StripFrom(s, e) ELSE <<s[i]>> \o StripFrom(s, i + 1)

stripAnsiCode(s) == StripFrom(s, 1)

-----------------------------------------------------------------------------
(* The grid. *)

SPACE == <<" ">>

\* The concatenation of the sequences parts[lo], ..., parts[hi].
RECURSIVE Flatten(_, _, _)
Flatten(parts, lo, hi) ==
    IF lo > hi THEN <<>>
    ELSE IF lo = hi THEN parts[lo]
    ELSE LET mid == (lo + hi) \div 2
         IN  Flatten(parts, lo, mid) \o Flatten(parts, mid + 1, hi)

\* v.join(""): the cells of a row, one after the other.
JoinCells(row) == Flatten(row, 1, Len(row))

\* A mutant of Render: a line feed after every row, the last one too.
RenderLines(cells) ==
    Flatten([k \in 1..Len(cells) |-> JoinCells(cells[k]) \o <<"LF">>], 1, Len(cells))

\* this.cells.map((v) => v.join("")).join("\n"): the rows with a line feed
\* between each two of them.
Render(cells) ==
    LET n == Len(cells)
        parts == [k \in 1..(2 * n - 1) |->
                     IF k % 2 = 1 THEN JoinCells(cells[(k + 1) \div 2]) ELSE <<"LF">>]
    IN  Flatten(parts, 1, 2 * n - 1)

\* new Array(rows).fill(null).map(() => new Array(columns).fill(null).map(() => " "))
\* new Array(n) throws a RangeError for n < 0; the inner arrays are made once
\* per row, so with no row no inner array is made.
NewCellsThrows(columns, rows) == rows < 0 \/ (rows > 0 /\ columns < 0)

NewCells(columns, rows) == [r \in 1..rows |-> [c \in 1..columns |-> SPACE]]

-----------------------------------------------------------------------------
(* The errors. *)

\* new Error("char length cannot be greater than 1"): InvalidCellContent
InvalidCellContent == "char length cannot be greater than 1"

\* new Error("cannot get cursor position"): PositionParseError
PositionParseError == "cannot get cursor position"

\* RangeError: Invalid array length, of new Array(n) with n < 0: InvalidDimensions
InvalidDimensions == "RangeError: Invalid array length"

\* TypeError of getWriter() on a locked stream and of write() on a released writer
LockError == "TypeError"

\* the error of the device, for a failed write or read
DeviceError == "DeviceError"

\* the error of Deno.stdin.setRaw() and Deno.consoleSize() without a terminal
NotATerminal == "NotATerminal"

-----------------------------------------------------------------------------
(* The environment. *)

Revisions == {1, 2, 3}

\* revision 1: Deno.isatty(Deno.stdout.rid)
isTTY1 == stdoutTTY

\* revision 2: Deno.isatty(Deno.stdout.rid) && Deno.isatty(Deno.stdin.rid)
isTTY2 == stdoutTTY /\ stdinTTY

\* revision 3: Deno.stdout.isTerminal, the method itself and not a call of it:
\* a function object, which every test of it takes for true.
isTTY3 == TRUE

isTTY == CASE revision = 1 -> isTTY1 [] revision = 2 -> isTTY2 [] OTHER -> isTTY3

\* What Deno.consoleSize() can answer: the size of the terminal, or an error
\* when no standard stream is a terminal (standard error is not modelled: with
\* neither stdin nor stdout a terminal, both answers are possible).
ConsoleSizes ==
    {[ok |-> TRUE, columns |-> 2, rows |-> 1]}
      \cup (IF stdoutTTY \/ stdinTTY THEN {}
            ELSE {[ok |-> FALSE, columns |-> 0, rows |-> 0]})

FallbackColumns == 100
FallbackRows == 50

\* size(): the outcome and the number of Deno.consoleSize() calls made.
SizeOutcome(os) ==
    IF ~isTTY
    THEN [st |-> "return", val |-> [columns |-> FallbackColumns, rows |-> FallbackRows],
          queries |-> 0]
    ELSE IF os.ok
    THEN [st |-> "return", val |-> [columns |-> os.columns, rows |-> os.rows],
          queries |-> 2]
    ELSE [st |-> "throw", val |-> NotATerminal, queries |-> 1]

-----------------------------------------------------------------------------
(* The call log.  A call is pending while its promise is unsettled.         *)
(* stage says where a pending call waits: "write" for its last chunk,       *)
(* "home" for the chunk of cursorTo(0, 0) that flush awaits, "read" for the *)
(* read of cursorPosition ("parsed" once cursorPosition has parsed what was *)
(* read).  solo, mark and pre are history: solo says that                   *)
(* nothing was in flight when the call was made and nothing was called      *)
(* since, mark is the number of chunks on the device when the call was      *)
(* made, pre is what the call found.                                        *)

NoSession == [columns |-> 0, rows |-> 0, cells |-> <<>>, released |-> FALSE]

SessionOf(sid) == IF sid \in 1..Len(sessions) THEN sessions[sid] ELSE NoSession

Pending(c) == calls[c].st = "pending"

Idle == queue = <<>> /\ \A c \in 1..Len(calls) : ~Pending(c)

\* The cells are kept for the calls that read or write them.
Pre(op, sid) ==
    [cells |-> IF op \in {"setCell", "flush"} THEN SessionOf(sid).cells ELSE <<>>,
     released |-> SessionOf(sid).released, locked |-> locked, raw |-> raw,
     osQueries |-> osQueries, reads |-> reads, written |-> Len(out) + Len(queue)]

NewCall(op, sid, arg, st, val, stage) ==
    [op |-> op, sid |-> sid, arg |-> arg, st |-> st, val |-> val, stage |-> stage,
     solo |-> Idle, mark |-> Len(out), pre |-> Pre(op, sid)]

\* The log with one more call: the calls in flight are no longer alone.
Logged(call) ==
    Append([c \in 1..Len(calls) |->
               IF Pending(c) THEN [calls[c] EXCEPT !.solo = FALSE] ELSE calls[c]],
           call)

CanCall == ~crashed /\ Len(calls) < budget

-----------------------------------------------------------------------------
(* The session. *)

Start ==
    /\ revision \in Revisions
    /\ stdoutTTY \in BOOLEAN
    /\ stdinTTY \in BOOLEAN
    /\ locked = FALSE
    /\ errored = FALSE
    /\ sessions = <<>>
    /\ queue = <<>>
    /\ out = <<>>
    /\ raw = FALSE
    /\ calls = <<>>
    /\ osQueries = 0
    /\ reads = 0
    /\ unhandled = 0
    /\ crashed = FALSE

\* new TermBox(size?): the field initialiser writer = getWriter() runs first and
\* throws on a locked stream; then the constructor body.
Construct(hasSize, size, os) ==
    /\ CanCall
    /\ Len(sessions) < MaxSessions
    /\ LET probe == IF hasSize THEN [st |-> "return", val |-> size, queries |-> 0]
                    ELSE SizeOutcome(os)
           arg == [hasSize |-> hasSize, size |-> size]
       IN  IF locked
           THEN /\ calls' = Logged(NewCall("construct", 0, arg, "throw", LockError, "none"))
                /\ UNCHANGED <<locked, sessions, osQueries>>
           ELSE /\ locked' = TRUE
                /\ osQueries' = osQueries + probe.queries
                /\ IF probe.st = "throw"
                   THEN /\ calls' = Logged(NewCall("construct", 0, arg, "throw",
                                                   probe.val, "none"))
                        /\ UNCHANGED sessions
                   ELSE IF NewCellsThrows(probe.val.columns, probe.val.rows)
                   THEN /\ calls' = Logged(NewCall("construct", 0, arg, "throw",
                                                   InvalidDimensions, "none"))
                        /\ UNCHANGED sessions
                   ELSE /\ sessions' = Append(sessions,
                               [columns |-> probe.val.columns, rows |-> probe.val.rows,
                                cells |-> NewCells(probe.val.columns, probe.val.rows),
                                released |-> FALSE])
                        /\ calls' = Logged(NewCall("construct", Len(sessions) + 1, arg,
                                                   "return", "void", "none"))
    /\ UNCHANGED <<budget, revision, stdoutTTY, stdinTTY, errored, queue, out, raw, reads,
                   unhandled, crashed>>

\* A mutant of OutsideColumns: the upper bound is off by one.
OutsideColumnsOffByOne(t, x) == x > t.columns \/ x < 0

\* if (x >= this.columns || x < 0) return;
OutsideColumns(t, x) == x >= t.columns \/ x < 0

\* if (y >= this.rows || y < 0) return;
OutsideRows(t, y) == y >= t.rows \/ y < 0

\* A mutant of TooLong: two visible units are let through.
TooLongOffByOne(char) == Len(stripAnsiCode(char)) > 2

\* stripAnsiCode(char).length > 1
TooLong(char) == Len(stripAnsiCode(char)) > 1

\* A mutant of Store: the text is stored without its styling codes.
StoreStripped(cells, x, y, char) == [cells EXCEPT ![y + 1][x + 1] = stripAnsiCode(char)]

\* A mutant of Store: the text is stored in every cell of the row.
StoreWholeRow(cells, x, y, char) ==
    [cells EXCEPT ![y + 1] = [k \in 1..Len(cells[y + 1]) |-> char]]

\* this.cells[y][x] = char
Store(cells, x, y, char) == [cells EXCEPT ![y + 1][x + 1] = char]

\* setCell(x, y, char)
SetCell(sid, x, y, char) ==
    /\ CanCall
    /\ sid \in 1..Len(sessions)
    /\ LET t == sessions[sid]
           arg == [x |-> x, y |-> y, char |-> char]
       IN  IF OutsideColumns(t, x)
           THEN /\ calls' = Logged(NewCall("setCell", sid, arg, "return", "void", "none"))
                /\ UNCHANGED sessions
           ELSE IF OutsideRows(t, y)
           THEN /\ calls' = Logged(NewCall("setCell", sid, arg, "return", "void", "none"))
                /\ UNCHANGED sessions
           ELSE IF TooLong(char)
           THEN /\ calls' = Logged(NewCall("setCell", sid, arg, "throw",
                                           InvalidCellContent, "none"))
                /\ UNCHANGED sessions
           ELSE /\ sessions' = [sessions EXCEPT ![sid].cells = Store(t.cells, x, y, char)]
                /\ calls' = Logged(NewCall("setCell", sid, arg, "return", "void", "none"))
    /\ UNCHANGED <<budget, revision, stdoutTTY, stdinTTY, locked, errored, queue, out, raw,
                   osQueries, reads, unhandled, crashed>>

\* size()
Size(sid, os) ==
    /\ CanCall
    /\ sid \in 1..Len(sessions)
    /\ LET r == SizeOutcome(os)
       IN  /\ osQueries' = osQueries + r.queries
           /\ calls' = Logged(NewCall("size", sid, "none", r.st, r.val, "none"))
    /\ UNCHANGED <<budget, revision, stdoutTTY, stdinTTY, locked, errored, sessions, queue,
                   out, raw, reads, unhandled, crashed>>

\* A mutant of End: the writer is marked released and the stream stays locked.
EndKeepsLock(sid) ==
    /\ CanCall
    /\ sid \in 1..Len(sessions)
    /\ sessions' = [sessions EXCEPT ![sid].released = TRUE]
    /\ calls' = Logged(NewCall("end", sid, "none", "return", "void", "none"))
    /\ UNCHANGED <<budget, revision, stdoutTTY, stdinTTY, locked, errored, queue, out, raw,
                   osQueries, reads, unhandled, crashed>>

\* end(): this.writer.releaseLock().  The lock of a writer that was released
\* before is not there to release: releaseLock() returns without a word.
End(sid) ==
    /\ CanCall
    /\ sid \in 1..Len(sessions)
    /\ IF sessions[sid].released
       THEN UNCHANGED <<sessions, locked>>
       ELSE /\ sessions' = [sessions EXCEPT ![sid].released = TRUE]
            /\ locked' = FALSE
    /\ calls' = Logged(NewCall("end", sid, "none", "return", "void", "none"))
    /\ UNCHANGED <<budget, revision, stdoutTTY, stdinTTY, errored, queue, out, raw,
                   osQueries, reads, unhandled, crashed>>

-----------------------------------------------------------------------------
(* Writing to the terminal. *)

\* TextEncoder.encode: UTF-16 code units to UTF-8 bytes.  A unit below U+0080
\* is one byte, written like the unit; U+009B is two bytes; a surrogate pair
\* is the four bytes of its code point; a lone surrogate is encoded as U+FFFD.
\* EncodeUnit is what the unit at index i adds to the bytes.
EncodeUnit(msg, i) ==
    IF msg[i] = "HI" /\ At(msg, i + 1) = "LO" THEN <<"F0", "9F", "98", "80">>
    ELSE IF msg[i] = "LO" /\ At(msg, i - 1) = "HI" THEN <<>>
    ELSE IF msg[i] \in {"HI", "LO"} THEN <<"EF", "BF", "BD">>
    ELSE IF msg[i] = "CSI" THEN <<"C2", "9B">>
    ELSE <<msg[i]>>

Encode(msg) == Flatten([i \in 1..Len(msg) |-> EncodeUnit(msg, i)], 1, Len(msg))

\* What this.writer.write() of session sid answers at once: the TypeError of a
\* released writer, the stored error of an errored stream, or "none" when the
\* chunk is queued.
WriteError(sid) ==
    IF sessions[sid].released THEN LockError
    ELSE IF errored THEN DeviceError
    ELSE "none"

Chunk(call, msg, then) == [call |-> call, bytes |-> Encode(msg), then |-> then]

\* write(msg): the promise of writer.write() is the promise of the call.
Write(sid, op, arg, msg) ==
    /\ CanCall
    /\ sid \in 1..Len(sessions)
    /\ LET e == WriteError(sid)
       IN  IF e # "none"
           THEN /\ calls' = Logged(NewCall(op, sid, arg, "reject", e, "none"))
                /\ UNCHANGED queue
           ELSE /\ calls' = Logged(NewCall(op, sid, arg, "pending", "void", "write"))
                /\ queue' = Append(queue, Chunk(Len(calls) + 1, msg, "settle"))
    /\ UNCHANGED <<budget, revision, stdoutTTY, stdinTTY, locked, errored, sessions, out, raw,
                   osQueries, reads, unhandled, crashed>>

\* cursor(action): write(ESC + action)
Cursor(sid, op, arg, action) == Write(sid, op, arg, ESC \o action)

CursorHide(sid) == Cursor(sid, "cursorHide", "none", HIDE_SEQ)

CursorShow(sid) == Cursor(sid, "cursorShow", "none", SHOW)

CursorSave(sid) == Write(sid, "cursorSave", "none", SAVE)

CursorRestore(sid) == Write(sid, "cursorRestore", "none", RESTORE)

CursorTo(sid, x, y) == Cursor(sid, "cursorTo", [x |-> x, y |-> y], CursorToAction(x, y))

ScreenClear(sid) == Cursor(sid, "screenClear", "none", CLEAR_SCREEN)

ScreenReset(sid) ==
    Write(sid, "screenReset", "none", ScreenResetText(SessionOf(sid).rows))

\* flush() of revision 1: this.cursorTo(0, 0) is called and its promise
\* dropped, the frame is rendered at once and its write is the promise of
\* the call.
Flush1(sid) ==
    /\ CanCall
    /\ revision = 1
    /\ sid \in 1..Len(sessions)
    /\ LET e == WriteError(sid)
           c == Len(calls) + 1
       IN  IF e # "none"
           THEN /\ calls' = Logged(NewCall("flush", sid, "none", "reject", e, "none"))
                /\ unhandled' = unhandled + 1
                /\ UNCHANGED queue
           ELSE /\ calls' = Logged(NewCall("flush", sid, "none", "pending", "void", "write"))
                /\ queue' = queue \o <<Chunk(c, ESC \o CursorToAction(0, 0), "drop"),
                                        Chunk(c, Render(sessions[sid].cells), "settle")>>
                /\ UNCHANGED unhandled
    /\ UNCHANGED <<budget, revision, stdoutTTY, stdinTTY, locked, errored, sessions, out, raw,
                   osQueries, reads, crashed>>

\* flush() of revisions 2 and 3, up to its await: await this.cursorTo(0, 0).
Flush(sid) ==
    /\ CanCall
    /\ revision # 1
    /\ sid \in 1..Len(sessions)
    /\ LET e == WriteError(sid)
       IN  IF e # "none"
           THEN /\ calls' = Logged(NewCall("flush", sid, "none", "reject", e, "none"))
                /\ UNCHANGED queue
           ELSE /\ calls' = Logged(NewCall("flush", sid, "none", "pending", "void", "home"))
                /\ queue' = Append(queue, Chunk(Len(calls) + 1,
                                                ESC \o CursorToAction(0, 0), "resume"))
    /\ UNCHANGED <<budget, revision, stdoutTTY, stdinTTY, locked, errored, sessions, out, raw,
                   osQueries, reads, unhandled, crashed>>

\* flush() of revisions 2 and 3 after its await:
\* return this.write(this.cells.map((v) => v.join("")).join("\n"))
FlushResume(c, rest) ==
    LET sid == calls[c].sid
        e == WriteError(sid)
    IN  IF e # "none"
        THEN /\ calls' = [calls EXCEPT ![c].st = "reject", ![c].val = e,
                                       ![c].stage = "none"]
             /\ queue' = rest
        ELSE /\ calls' = [calls EXCEPT ![c].stage = "write"]
             /\ queue' = Append(rest, Chunk(c, Render(sessions[sid].cells), "settle"))

\* The stream writes its first queued chunk to the device; the promise of that
\* write is fulfilled and what waits for it goes on.
SinkWrite ==
    /\ ~crashed
    /\ queue # <<>>
    /\ LET h == Head(queue)
       IN  /\ out' = Append(out, [call |-> h.call, bytes |-> h.bytes])
           /\ CASE h.then = "settle" ->
                     /\ calls' = [calls EXCEPT ![h.call].st = "resolve",
                                               ![h.call].stage = "none"]
                     /\ queue' = Tail(queue)
                [] h.then = "resume" -> FlushResume(h.call, Tail(queue))
                [] OTHER -> /\ queue' = Tail(queue)
                            /\ UNCHANGED calls
    /\ UNCHANGED <<budget, revision, stdoutTTY, stdinTTY, locked, errored, sessions, raw,
                   osQueries, reads, unhandled, crashed>>

\* The device fails the first queued chunk: the stream is errored and every
\* queued write is rejected with the error of the device.  A call waiting for
\* one of them is rejected; a rejected promise that was dropped is unhandled.
SinkFail ==
    /\ ~crashed
    /\ queue # <<>>
    /\ errored' = TRUE
    /\ queue' = <<>>
    /\ calls' = [c \in 1..Len(calls) |->
                    IF \E i \in 1..Len(queue) :
                           queue[i].call = c /\ queue[i].then \in {"settle", "resume"}
                    THEN [calls[c] EXCEPT !.st = "reject", !.val = DeviceError,
                                          !.stage = "none"]
                    ELSE calls[c]]
    /\ unhandled' = unhandled
                      + Cardinality({i \in 1..Len(queue) : queue[i].then = "drop"})
    /\ UNCHANGED <<budget, revision, stdoutTTY, stdinTTY, locked, sessions, out, raw,
                   osQueries, reads, crashed>>

\* The host ends the process for a rejected promise that nobody handles.
ProcessExit ==
    /\ ~crashed
    /\ unhandled > 0
    /\ crashed' = TRUE
    /\ UNCHANGED <<budget, revision, stdoutTTY, stdinTTY, locked, errored, sessions, queue,
                   out, raw, calls, osQueries, reads, unhandled>>

-----------------------------------------------------------------------------
(* The cursor position query. *)

\* new Uint8Array(100)
BufferSize == 100

\* The buffer after Deno.stdin.read(buf): the bytes read, at most the size of
\* the buffer, and zero bytes to its end.
Buffer(reply) ==
    Take(reply, BufferSize) \o Repeat("NUL", BufferSize - Len(Take(reply, BufferSize)))

\* new TextDecoder().decode(buf): UTF-8 bytes to UTF-16 code units.  The byte
\* sequences Encode makes are decoded back; any other byte of 0x80 and above
\* is decoded as U+FFFD.  DecodeUnit is what the byte at index i adds.
Lead(buf, i, bytes) == i >= 1 /\ SubSeq(buf, i, Min(i + Len(bytes) - 1, Len(buf))) = bytes

NonAsciiBytes == {"F0", "9F", "98", "80", "EF", "BF", "BD", "C2", "9B"}

DecodeUnit(buf, i) ==
    LET four == <<"F0", "9F", "98", "80">>
        three == <<"EF", "BF", "BD">>
        two == <<"C2", "9B">>
    IN  IF buf[i] \notin NonAsciiBytes THEN <<buf[i]>>
        ELSE IF Lead(buf, i, four) THEN <<"HI", "LO">>
        ELSE IF Lead(buf, i, three) THEN <<"FFFD">>
        ELSE IF Lead(buf, i, two) THEN <<"CSI">>
        ELSE IF \/ \E k \in 1..3 : Lead(buf, i - k, four)
                \/ \E k \in 1..2 : Lead(buf, i - k, three)
                \/ Lead(buf, i - 1, two)
        THEN <<>>
        ELSE <<"FFFD">>

Decode(buf) == Flatten([i \in 1..Len(buf) |-> DecodeUnit(buf, i)], 1, Len(buf))

\* /\[(\d+);(\d+)R/ matches at index i of output.  \d+ is greedy and the unit
\* after it must be no digit, so each group is the whole run of digits.
PositionMatchAt(output, i) ==
    LET d1 == RunLen(output, i + 1, Digits, Len(output))
        d2 == RunLen(output, i + 2 + d1, Digits, Len(output))
    IN  /\ At(output, i) = "["
        /\ d1 >= 1
        /\ At(output, i + 1 + d1) = ";"
        /\ d2 >= 1
        /\ At(output, i + 2 + d1 + d2) = "R"

\* output.match(/\[(\d+);(\d+)R/): the leftmost match and its two groups.
PositionMatch(output) ==
    LET starts == {i \in 1..Len(output) : PositionMatchAt(output, i)}
    IN  IF starts = {} THEN [ok |-> FALSE, g1 |-> <<>>, g2 |-> <<>>]
        ELSE LET i == CHOOSE k \in starts : \A j \in starts : k <= j
                 d1 == RunLen(output, i + 1, Digits, Len(output))
                 d2 == RunLen(output, i + 2 + d1, Digits, Len(output))
             IN  [ok |-> TRUE, g1 |-> SubSeq(output, i + 1, i + d1),
                  g2 |-> SubSeq(output, i + 2 + d1, i + 1 + d1 + d2)]

\* The end of cursorPosition(), from the decoded buffer.
ParsePosition(output) ==
    LET match == PositionMatch(output)
    IN  IF match.ok
        THEN [st |-> "resolve",
              val |-> [columns |-> parseInt(match.g2), rows |-> parseInt(match.g1)]]
        ELSE [st |-> "reject", val |-> PositionParseError]

\* cursorPosition() up to its await.  this.cursor(POSITION) is called and its
\* promise dropped; Deno.stdin.setRaw(true) throws when stdin is no terminal.
CursorPosition(sid) ==
    /\ CanCall
    /\ revision # 1
    /\ sid \in 1..Len(sessions)
    /\ IF ~isTTY
       THEN /\ calls' = Logged(NewCall("cursorPosition", sid, <<>>, "resolve",
                                       [columns |-> 0, rows |-> 0], "none"))
            /\ UNCHANGED <<queue, unhandled, raw, reads>>
       ELSE /\ IF WriteError(sid) # "none"
               THEN /\ unhandled' = unhandled + 1
                    /\ UNCHANGED queue
               ELSE /\ queue' = Append(queue, Chunk(Len(calls) + 1, ESC \o POSITION, "drop"))
                    /\ UNCHANGED unhandled
            /\ IF ~stdinTTY
               THEN /\ calls' = Logged(NewCall("cursorPosition", sid, <<>>, "reject",
                                               NotATerminal, "none"))
                    /\ UNCHANGED <<raw, reads>>
               ELSE /\ raw' = TRUE
                    /\ reads' = reads + 1
                    /\ calls' = Logged(NewCall("cursorPosition", sid, <<>>, "pending",
                                               "void", "read"))
    /\ UNCHANGED <<budget, revision, stdoutTTY, stdinTTY, locked, errored, sessions, out,
                   osQueries, crashed>>

\* The read of call c ends with the bytes reply; cursorPosition() goes on:
\* Deno.stdin.setRaw(false), decode, match.
ReadComplete(c, reply) ==
    /\ ~crashed
    /\ c \in 1..Len(calls)
    /\ Pending(c)
    /\ calls[c].stage = "read"
    /\ raw' = FALSE
    /\ LET r == ParsePosition(Decode(Buffer(reply)))
       IN  calls' = [calls EXCEPT ![c].st = r.st, ![c].val = r.val,
                                  ![c].stage = "parsed", ![c].arg = reply]
    /\ UNCHANGED <<budget, revision, stdoutTTY, stdinTTY, locked, errored, sessions, queue,
                   out, osQueries, reads, unhandled, crashed>>

\* The read of call c fails: the await throws and cursorPosition() is left
\* there, rejected with the error of the device.
ReadFail(c) ==
    /\ ~crashed
    /\ c \in 1..Len(calls)
    /\ Pending(c)
    /\ calls[c].stage = "read"
    /\ calls' = [calls EXCEPT ![c].st = "reject", ![c].val = DeviceError,
                              ![c].stage = "none"]
    /\ UNCHANGED <<budget, revision, stdoutTTY, stdinTTY, locked, errored, sessions, queue,
                   out, raw, osQueries, reads, unhandled, crashed>>

-----------------------------------------------------------------------------
(* The specification: a program on a terminal that uses every operation of *)
(* the interface, on few arguments.                                        *)

Sizes == {[columns |-> 2, rows |-> 2], [columns |-> 2, rows |-> -1],
          [columns |-> -1, rows |-> 0]}

NoSize == [columns |-> 0, rows |-> 0]

Texts == {<<"a">>, <<"a", "b">>}

Replies == {<<"ESC", "[", "4", "0", ";", "1", "2", "0", "R">>,
            <<"[", "2", ";", "3", "R">>,
            <<"ESC", "[", "2", "R">>,
            <<>>}

Sids == 1..MaxSessions

Init == Start /\ stdoutTTY /\ stdinTTY /\ budget = MaxCalls

Next ==
    \/ \E size \in Sizes, os \in ConsoleSizes : Construct(TRUE, size, os)
    \/ \E os \in ConsoleSizes : Construct(FALSE, NoSize, os)
    \/ \E sid \in Sids, x \in {0, 2}, char \in Texts : SetCell(sid, x, 1, char)
    \/ \E sid \in Sids, os \in ConsoleSizes : Size(sid, os)
    \/ \E sid \in Sids : End(sid)
    \/ \E sid \in Sids : CursorHide(sid)
    \/ \E sid \in Sids : CursorShow(sid)
    \/ \E sid \in Sids : CursorSave(sid)
    \/ \E sid \in Sids : CursorRestore(sid)
    \/ \E sid \in Sids : CursorTo(sid, 3, 5)
    \/ \E sid \in Sids : ScreenClear(sid)
    \/ \E sid \in Sids : ScreenReset(sid)
    \/ \E sid \in Sids : Flush1(sid)
    \/ \E sid \in Sids : Flush(sid)
    \/ \E sid \in Sids : CursorPosition(sid)
    \/ \E c \in 1..Len(calls), reply \in Replies : ReadComplete(c, reply)
    \/ \E c \in 1..Len(calls) : ReadFail(c)
    \/ SinkWrite
    \/ SinkFail
    \/ ProcessExit

Spec == Init /\ [][Next]_vars

-----------------------------------------------------------------------------
(* The grid specification: a program on a terminal that sets cells of a    *)
(* grid of two columns and two rows, inside and outside of it, and flushes.*)

GridSize == [columns |-> 2, rows |-> 2]

\* The two cells of row 1, and a point past each side of the grid.
GridPoints == {<<0, 1>>, <<1, 1>>, <<-1, 1>>, <<2, 1>>, <<0, -1>>, <<0, 2>>}

GridTexts == {<<"a">>, <<>>, <<"a", "b">>, <<"ESC", "[", "1", "m", "b">>,
              <<"ESC", "[", "1", "m", "a", "b">>, <<"HI", "LO">>}

InitGrid == Start /\ stdoutTTY /\ stdinTTY /\ budget = MaxGridCalls

NextGrid ==
    \/ \E os \in ConsoleSizes : Construct(TRUE, GridSize, os)
    \/ \E p \in GridPoints, char \in GridTexts : SetCell(1, p[1], p[2], char)
    \/ Flush1(1)
    \/ Flush(1)
    \/ SinkWrite

SpecGrid == InitGrid /\ [][NextGrid]_vars

-----------------------------------------------------------------------------
(* The query specification: a program, on a terminal or not, that asks for *)
(* the size and for the cursor position.                                   *)

QueryReplies ==
    Replies \cup {<<"ESC", "[", "1", ";", "2", "R", "ESC", "[", "3", ";", "4", "R">>,
                  <<"x", "ESC", "[", "0", "7", ";", "1", "R">>,
                  <<"ESC", "[", ";", "1", "R">>,
                  <<"ESC", "[", "1", ";", "2">>,
                  <<"1", ";", "2", "R">>}

InitQuery == Start /\ budget = MaxQueryCalls

NextQuery ==
    \/ \E os \in ConsoleSizes : Construct(TRUE, GridSize, os)
    \/ \E os \in ConsoleSizes : Construct(FALSE, NoSize, os)
    \/ \E os \in ConsoleSizes : Size(1, os)
    \/ End(1)
    \/ CursorPosition(1)
    \/ \E c \in 1..Len(calls), reply \in QueryReplies : ReadComplete(c, reply)
    \/ \E c \in 1..Len(calls) : ReadFail(c)
    \/ SinkWrite
    \/ SinkFail
    \/ ProcessExit

SpecQuery == InitQuery /\ [][NextQuery]_vars

-----------------------------------------------------------------------------
(* The screen specification: a program on a terminal that moves, hides,    *)
(* shows, saves and restores the cursor and clears and resets the screen.  *)

ScreenSizes == {[columns |-> 2, rows |-> 2], [columns |-> 3, rows |-> 24]}

ScreenPoints == {<<0, 0>>, <<3, 5>>, <<12, 7>>}

InitScreen == Start /\ stdoutTTY /\ stdinTTY /\ budget = MaxScreenCalls

NextScreen ==
    \/ \E size \in ScreenSizes, os \in ConsoleSizes : Construct(TRUE, size, os)
    \/ CursorHide(1)
    \/ CursorShow(1)
    \/ CursorSave(1)
    \/ CursorRestore(1)
    \/ \E p \in ScreenPoints : CursorTo(1, p[1], p[2])
    \/ ScreenClear(1)
    \/ ScreenReset(1)
    \/ SinkWrite
    \/ SinkFail

SpecScreen == InitScreen /\ [][NextScreen]_vars

-----------------------------------------------------------------------------
(* The owner specification: a program on a terminal that makes sessions,   *)
(* ends them and writes with them.                                         *)

InitOwner == Start /\ stdoutTTY /\ stdinTTY /\ budget = MaxOwnerCalls

NextOwner ==
    \/ \E os \in ConsoleSizes : Construct(TRUE, GridSize, os)
    \/ \E sid \in Sids : End(sid)
    \/ \E sid \in Sids : CursorHide(sid)
    \/ SinkWrite

SpecOwner == InitOwner /\ [][NextOwner]_vars

-----------------------------------------------------------------------------
(* Claims about setCell. *)

SetCellCalls == {c \in 1..Len(calls) : calls[c].op = "setCell"}

Latest(c) == c = Len(calls)

\* The coordinates of call c are inside the grid of its session.
InRange(c) ==
    LET t == sessions[calls[c].sid]
    IN  /\ 0 <= calls[c].arg.x /\ calls[c].arg.x < t.columns
        /\ 0 <= calls[c].arg.y /\ calls[c].arg.y < t.rows

\* The length that is left of a text once its styling codes are stripped, in
\* UTF-16 code units, as the length of a string counts.
VisibleLength(char) == Len(stripAnsiCode(char))

\* The number of units in cells 1 to n of a row.
RECURSIVE UnitsInRow(_, _)
UnitsInRow(row, n) == IF n = 0 THEN 0 ELSE UnitsInRow(row, n - 1) + Len(row[n])

\* The number of units in rows 1 to n, each with the line feed after it.
RECURSIVE UnitsInRows(_, _)
UnitsInRows(cells, n) ==
    IF n = 0 THEN 0
    ELSE UnitsInRows(cells, n - 1) + UnitsInRow(cells[n], Len(cells[n])) + 1

\* Where the cell of column x of row y starts in the rendered grid.
CellOffset(cells, x, y) == UnitsInRows(cells, y) + UnitsInRow(cells[y + 1], x)

C2_OutOfRangeIsNoOp ==
    \A c \in SetCellCalls :
        ~InRange(c) =>
            /\ calls[c].st = "return"
            /\ Latest(c) =>
                  /\ sessions[calls[c].sid].cells = calls[c].pre.cells
                  /\ Render(sessions[calls[c].sid].cells) = Render(calls[c].pre.cells)

\* A text of two visible units was just set outside a grid that is no longer
\* blank.
C2_Witness ==
    \E c \in SetCellCalls :
        /\ Latest(c)
        /\ ~InRange(c)
        /\ VisibleLength(calls[c].arg.char) >= 2
        /\ calls[c].st = "return"
        /\ sessions[calls[c].sid].cells # NewCells(2, 2)

\* C3: setCell(x, y, text) with (x, y) inside the grid and text of stripped
\* length 2 or more throws InvalidCellContent and right after the call every
\* cell is what it was; a later setCell on the same cell with a text of
\* stripped length at most 1 returns and stores its text.
C3_TooLongThrows ==
    \A c \in SetCellCalls :
        (InRange(c) /\ VisibleLength(calls[c].arg.char) >= 2) =>
            /\ calls[c].st = "throw"
            /\ calls[c].val = InvalidCellContent
            /\ Latest(c) => sessions[calls[c].sid].cells = calls[c].pre.cells
            /\ \A d \in SetCellCalls :
                  ( /\ d > c
                    /\ calls[d].sid = calls[c].sid
                    /\ calls[d].arg.x = calls[c].arg.x
                    /\ calls[d].arg.y = calls[c].arg.y
                    /\ VisibleLength(calls[d].arg.char) <= 1 ) =>
                      /\ calls[d].st = "return"
                      /\ Latest(d) =>
                            sessions[calls[d].sid].cells[calls[d].arg.y + 1][calls[d].arg.x + 1]
                                = calls[d].arg.char

\* A styled text of two visible units was refused for column 1 of row 1, and
\* the next call stored a styled text of one visible unit there.
C3_Witness ==
    \E c \in SetCellCalls, d \in SetCellCalls :
        /\ d = c + 1 /\ Latest(d)
        /\ calls[c].arg = [x |-> 1, y |-> 1, char |-> <<"ESC", "[", "1", "m", "a", "b">>]
        /\ calls[c].st = "throw"
        /\ calls[d].arg = [x |-> 1, y |-> 1, char |-> <<"ESC", "[", "1", "m", "b">>]
        /\ sessions[calls[d].sid].cells[2][2] = <<"ESC", "[", "1", "m", "b">>

-----------------------------------------------------------------------------
(* Claims about flush. *)

FlushCalls == {c \in 1..Len(calls) : calls[c].op = "flush"}

\* The text of cells 1 to n of a row, in column order.
RECURSIVE RowText(_, _)
RowText(row, n) == IF n = 0 THEN <<>> ELSE RowText(row, n - 1) \o row[n]

\* The text of rows 1 to n, top to bottom, one line feed between two rows.
RECURSIVE FrameText(_, _)
FrameText(cells, n) ==
    IF n = 0 THEN <<>>
    ELSE IF n = 1 THEN RowText(cells[1], Len(cells[1]))
    ELSE FrameText(cells, n - 1) \o <<"LF">> \o RowText(cells[n], Len(cells[n]))

\* The bytes of a full frame: ESC[0;0H, then the grid.
FrameBytes(cells) ==
    Encode(<<"ESC", "[", "0", ";", "0", "H">> \o FrameText(cells, Len(cells)))

\* The bytes that the chunks of call c have put on the device, in order.
RECURSIVE BytesOf(_, _)
BytesOf(c, n) ==
    IF n = 0 THEN <<>>
    ELSE BytesOf(c, n - 1) \o (IF out[n].call = c THEN out[n].bytes ELSE <<>>)

\* Call c has a chunk that is not written yet.
Queued(c) == \E i \in 1..Len(queue) : queue[i].call = c

\* C4: a flush() made with nothing in flight and left alone until its promise
\* is fulfilled has put on the device, right after what was there, the bytes
\* of ESC[0;0H followed by the rows of the grid, cells joined in column
\* order, rows joined by one line feed, and nothing more; the cells are what
\* they were; two such flushes in a row write the same bytes.
C4_FlushWritesFrame ==
    \A c \in FlushCalls :
        (calls[c].solo /\ calls[c].st = "resolve") =>
            LET m == calls[c].mark
            IN  /\ ~Queued(c)
                /\ Len(out) >= m + 2
                /\ \A i \in 1..Len(out) : out[i].call = c <=> i \in {m + 1, m + 2}
                /\ BytesOf(c, Len(out)) = FrameBytes(calls[c].pre.cells)
                /\ Latest(c) =>
                      /\ Len(out) = m + 2
                      /\ sessions[calls[c].sid].cells = calls[c].pre.cells
                /\ \A d \in FlushCalls :
                      ( /\ d = c + 1
                        /\ calls[d].sid = calls[c].sid
                        /\ calls[d].solo /\ calls[d].st = "resolve" ) =>
                          BytesOf(d, Len(out)) = BytesOf(c, Len(out))

\* Two flushes in a row, each left alone, have both written the frame of a
\* grid of two rows.
C4_Witness ==
    \E c \in FlushCalls, d \in FlushCalls :
        /\ d = c + 1 /\ Latest(d)
        /\ calls[c].solo /\ calls[c].st = "resolve"
        /\ calls[d].solo /\ calls[d].st = "resolve"
        /\ Len(calls[d].pre.cells) = 2
        /\ Len(out) = 4

-----------------------------------------------------------------------------
(* Claims about the cursor position query and the size. *)

PositionCalls == {c \in 1..Len(calls) : calls[c].op = "cursorPosition"}

\* C5: the input is in raw mode only while a cursorPosition() call is in
\* progress: every way out of cursorPosition(), the failure of the read too,
\* leaves the input in normal mode.
C5_RawOnlyDuringQuery == raw => \E c \in PositionCalls : Pending(c)

\* Both devices are terminals.
Attached == stdoutTTY /\ stdinTTY

\* Call c has put no chunk on the device and has none queued.
NoChunkOf(c) == ~Queued(c) /\ \A i \in 1..Len(out) : out[i].call # c

\* C6: when the session is not attached to a terminal, size() returns 100
\* columns and 50 rows and asks the system nothing, and cursorPosition()
\* resolves with 0 columns and 0 rows, writes nothing, reads nothing and
\* leaves the mode of the input alone.
C6_DetachedAnswersFixed ==
    \A c \in 1..Len(calls) :
        ~Attached =>
            /\ calls[c].op = "size" =>
                  /\ calls[c].st = "return"
                  /\ calls[c].val = [columns |-> 100, rows |-> 50]
                  /\ Latest(c) => osQueries = calls[c].pre.osQueries
            /\ calls[c].op = "cursorPosition" =>
                  /\ calls[c].st = "resolve"
                  /\ calls[c].val = [columns |-> 0, rows |-> 0]
                  /\ NoChunkOf(c)
                  /\ Latest(c) => (reads = calls[c].pre.reads /\ raw = calls[c].pre.raw)

\* ESC [ digits ; digits R stands at index i of output.
ReplyAt(output, i) == At(output, i) = "ESC" /\ PositionMatchAt(output, i + 1)

\* What the first ESC [ r ; c R of output says.
ReplySize(output) ==
    LET i == CHOOSE k \in 1..Len(output) :
                 ReplyAt(output, k) /\ \A j \in 1..(k - 1) : ~ReplyAt(output, j)
        d1 == RunLen(output, i + 2, Digits, Len(output))
        d2 == RunLen(output, i + 3 + d1, Digits, Len(output))
    IN  [columns |-> parseInt(SubSeq(output, i + 3 + d1, i + 2 + d1 + d2)),
         rows |-> parseInt(SubSeq(output, i + 2, i + 1 + d1))]

\* C7: once cursorPosition() has read a reply, it resolves with the columns
\* and rows of ESC [ r ; c R when the reply has that pattern, and only then;
\* for any other reply, an empty one or one without the ESC too, it rejects
\* with PositionParseError; it has read once.
C7_ReplyDecidesAnswer ==
    \A c \in PositionCalls :
        calls[c].stage = "parsed" =>
            LET output == Decode(Buffer(calls[c].arg))
            IN  /\ IF \E i \in 1..Len(output) : ReplyAt(output, i)
                   THEN calls[c].st = "resolve" /\ calls[c].val = ReplySize(output)
                   ELSE calls[c].st = "reject" /\ calls[c].val = PositionParseError
                /\ Latest(c) => reads = calls[c].pre.reads + 1

-----------------------------------------------------------------------------
(* Claims about the end of a session and about its construction. *)

\* The operations that write to the terminal.
WritingOps == {"flush", "cursorHide", "cursorShow", "cursorSave", "cursorRestore",
               "cursorTo", "screenClear", "screenReset", "cursorPosition"}

\* C8: an operation that writes to the terminal, called on a session after
\* its end(), has none of its bytes queued or written, and once it is
\* settled it is rejected with the error of the released writer.
C8_WritesFailAfterEnd ==
    \A c \in 1..Len(calls) :
        (calls[c].op \in WritingOps /\ calls[c].pre.released) =>
            /\ NoChunkOf(c)
            /\ ~Pending(c) => (calls[c].st = "reject" /\ calls[c].val = LockError)

\* C9: an end() on a session that was ended before throws, and a session that
\* was ended stays ended.
C9_SecondEndFails ==
    \A c \in 1..Len(calls) :
        (calls[c].sid \in 1..Len(sessions) /\ calls[c].pre.released) =>
            /\ calls[c].op = "end" => calls[c].st = "throw"
            /\ sessions[calls[c].sid].released

\* C10: new TermBox(size), when the stream is free, throws InvalidDimensions
\* if columns < 0 or rows < 0, and otherwise returns a session whose grid has
\* rows rows of columns cells, each holding one space.
C10_ExplicitSizeChecked ==
    \A c \in 1..Len(calls) :
        (calls[c].op = "construct" /\ calls[c].arg.hasSize /\ ~calls[c].pre.locked) =>
            LET size == calls[c].arg.size
            IN  IF size.columns < 0 \/ size.rows < 0
                THEN calls[c].st = "throw" /\ calls[c].val = InvalidDimensions
                ELSE /\ calls[c].st = "return"
                     /\ Latest(c) =>
                           sessions[calls[c].sid].cells
                               = [r \in 1..size.rows |-> [k \in 1..size.columns |-> <<" ">>]]

-----------------------------------------------------------------------------
(* Claims about failures of the device. *)

\* C11: when the device fails a write, the call whose chunk it failed is
\* rejected with the error of the device; when the device fails the read of a
\* cursorPosition(), that call is rejected with the error of the device.
C11_DeviceFailureDelivered ==
    [][ /\ (~errored /\ errored') =>
              /\ calls'[Head(queue).call].st = "reject"
              /\ calls'[Head(queue).call].val = DeviceError
        /\ \A c \in PositionCalls :
              (calls[c].stage = "read" /\ calls'[c].stage = "none") =>
                  (calls'[c].st = "reject" /\ calls'[c].val = DeviceError)
      ]_vars

-----------------------------------------------------------------------------
(* Claims about the cursor and screen operations. *)

TableOps == {"cursorHide", "cursorShow", "cursorSave", "cursorRestore", "cursorTo",
             "screenClear", "screenReset"}

\* The sequence of the table for call c, U+001B written "ESC".
TableText(c) ==
    LET op == calls[c].op
    IN  CASE op = "cursorHide" -> <<"ESC", "[", "?", "2", "5", "l">>
          [] op = "cursorShow" -> <<"ESC", "[", "?", "2", "5", "h">>
          [] op = "cursorSave" -> <<"ESC", "7">>
          [] op = "cursorRestore" -> <<"ESC", "8">>
          [] op = "screenClear" -> <<"ESC", "[", "2", "J">>
          [] op = "cursorTo" ->
                <<"ESC", "[">> \o NumberToString(calls[c].arg.y) \o <<";">>
                    \o NumberToString(calls[c].arg.x) \o <<"H">>
          [] op = "screenReset" ->
                <<"ESC", "[">> \o NumberToString(sessions[calls[c].sid].rows - 1)
                    \o <<"A", "CR", "ESC", "[", "?", "0", "J">>

ChunksOut(c) == {i \in 1..Len(out) : out[i].call = c}

ChunksQueued(c) == {i \in 1..Len(queue) : queue[i].call = c}

\* Every cursor or screen call has at most one chunk, queued while the call is
\* pending and on the device once it is fulfilled, and its bytes are those of
\* the sequence of the table.
TableChunks ==
    \A c \in 1..Len(calls) :
        calls[c].op \in TableOps =>
            /\ Cardinality(ChunksOut(c)) + Cardinality(ChunksQueued(c)) <= 1
            /\ \A i \in ChunksOut(c) : out[i].bytes = Encode(TableText(c))
            /\ \A i \in ChunksQueued(c) : queue[i].bytes = Encode(TableText(c))
            /\ calls[c].st = "pending" => Cardinality(ChunksQueued(c)) = 1
            /\ calls[c].st = "resolve" => Cardinality(ChunksOut(c)) = 1

\* A cursor or screen call leaves the sessions, their grids with them, alone.
TableKeepsGrid ==
    (Len(calls') > Len(calls) /\ calls'[Len(calls')].op \in TableOps) => sessions' = sessions

\* C12: each cursor or screen operation puts exactly the sequence of its table
\* row on the output (cursorTo with the row before the column and the
\* coordinates as given, screenReset with the rows of the grid less one) and
\* does not change the grid.
C12_TableSequences == []TableChunks /\ [][TableKeepsGrid]_vars

\* cursorTo(12, 7) and screenReset() on a grid of 24 rows are both fulfilled.
C12_Witness ==
    \E c, d \in 1..Len(calls) :
        /\ calls[c].op = "cursorTo" /\ calls[c].arg = [x |-> 12, y |-> 7]
        /\ calls[c].st = "resolve"
        /\ calls[d].op = "screenReset" /\ calls[d].st = "resolve"
        /\ sessions[calls[d].sid].rows = 24

-----------------------------------------------------------------------------
(* Claims about what counts as a terminal. *)

\* C13: when exactly one of the output and the input is a terminal, the
\* session does not count as attached: the input is never put in raw mode
\* and never read, every cursorPosition() resolves with 0 columns and 0 rows
\* and every size() returns 100 columns and 50 rows.
C13_BothDevicesNeeded ==
    (stdoutTTY # stdinTTY) =>
        /\ ~raw
        /\ reads = 0
        /\ \A c \in 1..Len(calls) :
              /\ calls[c].op = "cursorPosition" =>
                    (calls[c].st = "resolve" /\ calls[c].val = [columns |-> 0, rows |-> 0])
              /\ calls[c].op = "size" =>
                    (calls[c].st = "return" /\ calls[c].val = [columns |-> 100, rows |-> 50])

-----------------------------------------------------------------------------
(* Claims about the cells. *)

\* C14: in every state every cell of every grid holds a text that has exactly
\* one visible unit once its styling codes are stripped: not more, and not
\* none.
C14_CellsHoldOneCharacter ==
    \A sid \in 1..Len(sessions) :
        \A r \in 1..Len(sessions[sid].cells) :
            \A k \in 1..Len(sessions[sid].cells[r]) :
                VisibleLength(sessions[sid].cells[r][k]) = 1

-----------------------------------------------------------------------------
(* Claims about the order of the writes. *)

\* C15: the chunks on the device are in the order in which their calls were
\* made, so the bytes of one call are never split by those of another: the
\* ESC[0;0H and the frame of a flush() are next to each other.
C15_WritesInCallOrder ==
    \A i, j \in 1..Len(out) : i < j => out[i].call <= out[j].call

-----------------------------------------------------------------------------
(* Claims about the steps of the cursor position query. *)

\* C16: on a terminal, a cursorPosition() call that has put the input in raw
\* mode has its request ESC[6n on the device, written once; the input is in
\* raw mode while the call, left alone, waits for its read; the call reads
\* once; and once it is settled the input is in normal mode.
C16_QueryStepsInOrder ==
    Attached =>
        \A c \in PositionCalls :
            /\ Cardinality(ChunksOut(c)) = 1
            /\ \A i \in ChunksOut(c) : out[i].bytes = Encode(<<"ESC", "[", "6", "n">>)
            /\ (calls[c].solo /\ calls[c].stage = "read") => raw
            /\ Latest(c) => reads = calls[c].pre.reads + 1
            /\ (Latest(c) /\ ~Pending(c)) => ~raw

-----------------------------------------------------------------------------
(* Claims about the owner of the output. *)

ConstructCalls == {c \in 1..Len(calls) : calls[c].op = "construct"}

\* C17: a construction that found the stream free and failed leaves it free:
\* right after it the stream is not locked, and a construction with a valid
\* size that comes next returns a session.
C17_FailedConstructFreesOwner ==
    \A c \in ConstructCalls :
        (calls[c].st = "throw" /\ ~calls[c].pre.locked) =>
            /\ Latest(c) => ~locked
            /\ \A d \in ConstructCalls :
                  ( /\ d = c + 1
                    /\ calls[d].arg.hasSize
                    /\ calls[d].arg.size.columns >= 0
                    /\ calls[d].arg.size.rows >= 0 ) => calls[d].st = "return"

\* Session sid was ended by a call made before call c.
EndedBefore(sid, c) == \E e \in 1..(c - 1) : calls[e].op = "end" /\ calls[e].sid = sid

\* When call c was made, a session made before it was not ended.
HeldBefore(c) ==
    \E b \in 1..(c - 1) :
        /\ calls[b].op = "construct" /\ calls[b].st = "return"
        /\ ~EndedBefore(calls[b].sid, c)

Unended == {sid \in 1..Len(sessions) : ~sessions[sid].released}

\* C18: at most one session is not ended; a construction made while an
\* earlier session is not ended throws, and one made when every earlier
\* session is ended returns a session; a write of a session that is not ended
\* is queued and, once fulfilled, on the device.
C18_OneOwnerAtATime ==
    /\ Cardinality(Unended) <= 1
    /\ \A c \in ConstructCalls :
          IF HeldBefore(c)
          THEN calls[c].st = "throw" /\ calls[c].val = LockError
          ELSE calls[c].st = "return" /\ calls[c].sid \in 1..Len(sessions)
    /\ \A c \in 1..Len(calls) :
          (calls[c].op = "cursorHide" /\ ~EndedBefore(calls[c].sid, c)) =>
              /\ calls[c].st \in {"pending", "resolve"}
              /\ calls[c].st = "resolve" => Cardinality(ChunksOut(c)) = 1

\* A second construction was refused while the first session was open; after
\* its end a second session was made and its write is on the device.
C18_Witness ==
    \E b, c, d \in ConstructCalls, w \in 1..Len(calls) :
        /\ b < c /\ c < d /\ d < w
        /\ calls[b].st = "return" /\ calls[c].st = "throw" /\ calls[d].st = "return"
        /\ calls[d].sid = 2
        /\ calls[w].op = "cursorHide" /\ calls[w].sid = 2 /\ calls[w].st = "resolve"

-----------------------------------------------------------------------------
(* Claims about the frame of a flush and the frame of setCell. *)

HomeBytes == Encode(<<"ESC", "[", "0", ";", "0", "H">>)

\* The bytes of the grid that call c found.
GridBytesAt(c) == Encode(FrameText(calls[c].pre.cells, Len(calls[c].pre.cells)))

\* C19: every chunk of a flush() is ESC[0;0H or the grid as it was when
\* flush() was called: a setCell made while the flush is pending is not in
\* its frame.
C19_FlushWritesGridAtCall ==
    \A c \in FlushCalls :
        /\ \A i \in ChunksOut(c) : out[i].bytes \in {HomeBytes, GridBytesAt(c)}
        /\ \A i \in ChunksQueued(c) : queue[i].bytes \in {HomeBytes, GridBytesAt(c)}

\* C20: every grid has the rows and columns its construction was given, in
\* every state; right after a setCell(x, y, text) every cell other than
\* (x, y) holds what it held before; a setCell has no chunk queued or written,
\* and nothing is queued or written while no flush() was called.
C20_SetCellFrame ==
    /\ \A c \in ConstructCalls :
          (calls[c].st = "return" /\ calls[c].arg.hasSize) =>
              LET t == sessions[calls[c].sid]
              IN  /\ t.columns = calls[c].arg.size.columns
                  /\ t.rows = calls[c].arg.size.rows
                  /\ Len(t.cells) = t.rows
                  /\ \A r \in 1..Len(t.cells) : Len(t.cells[r]) = t.columns
    /\ \A c \in SetCellCalls :
          /\ NoChunkOf(c)
          /\ Latest(c) =>
                LET cells == sessions[calls[c].sid].cells
                    before == calls[c].pre.cells
                IN  \A r \in 1..Len(before) : \A k \in 1..Len(before[r]) :
                        (r # calls[c].arg.y + 1 \/ k # calls[c].arg.x + 1) =>
                            cells[r][k] = before[r][k]
    /\ FlushCalls = {} => (out = <<>> /\ queue = <<>>)

\* A setCell has just changed cell (1, 1) and the cell next to it, set by an
\* earlier call, holds its text; nothing was written.
C20_Witness ==
    \E c \in SetCellCalls :
        /\ Latest(c)
        /\ calls[c].arg = [x |-> 1, y |-> 1, char |-> <<"a">>]
        /\ calls[c].pre.cells[2] = <<<<"ESC", "[", "1", "m", "b">>, <<" ">>>>
        /\ sessions[calls[c].sid].cells[2] = <<<<"ESC", "[", "1", "m", "b">>, <<"a">>>>
        /\ out = <<>> /\ queue = <<>>

=============================================================================
